---------------------------- MODULE Spec2Model ----------------------------
(***************************************************************************)
(* Document analysis pipeline of AWS-ai-document-analyzer.                 *)
(*                                                                         *)
(* The upload Lambda creates a Document Record in the DynamoDB table; the  *)
(* processing Lambda loads it, resolves its text (S3 read or Textract),    *)
(* sends the text to Bedrock, interprets the model's answer into a         *)
(* ContractAnalysis and writes the terminal status back to the table.      *)
(* Every await of the handlers is a step of its own, so that invocations   *)
(* interleave exactly where the Lambdas can.                               *)
(***************************************************************************)
EXTENDS Integers, Sequences, FiniteSets, TLC

(***************************************************************************)
(* Bounds of the model.                                                    *)
(***************************************************************************)
\* number of processing invocations (Lambda executions) that may run
MaxInv == 2
\* largest value of the wall clock read by new Date()
MaxClock == 1
\* number of documents the upload handler may create
MaxUploads == 1

Invs == 1..MaxInv
Times == 0..MaxClock
\* ids uuidv4() may generate and clients may ask for
DocIds == {"d1", "d2"}

(***************************************************************************)
(* JSON values, as JSON.parse produces them, tagged with their JS type.    *)
(***************************************************************************)
JUndefined == [t |-> "undefined"]
JNull == [t |-> "null"]
JBool(b) == [t |-> "bool", b |-> b]
JNum(n) == [t |-> "num", n |-> n]
JStr(s) == [t |-> "str", s |-> s]
JArr(a) == [t |-> "arr", a |-> a]
JObj(o) == [t |-> "obj", o |-> o]
\* a string whose characters matter: the model's answer, a sequence of tokens
JText(toks) == [t |-> "text", x |-> toks]
\* the outcome of an expression that threw
Thrown == [t |-> "thrown"]

\* JS truthiness, as the || of the field mapping tests it
Truthy(v) ==
    CASE v.t = "undefined" -> FALSE
      [] v.t = "null" -> FALSE
      [] v.t = "bool" -> v.b
      [] v.t = "num" -> v.n # 0
      [] v.t = "str" -> v.s # ""
      [] v.t = "text" -> v.x # <<>>
      [] OTHER -> TRUE

\* a || b without its right-hand side: a null or missing section is kept
OrKeepsLeft(a, b) == a

\* a || b
Or(a, b) == IF Truthy(a) THEN a ELSE b

\* o.k on a parsed object: the member's value, or undefined
Prop(o, k) == IF k \in DOMAIN o THEN o[k] ELSE JUndefined

(***************************************************************************)
(* The text of a model answer is a sequence of tokens: an opening brace, a *)
(* closing brace, a run of prose, or a member "key": value of an object    *)
(* (the value's own text, nested braces included, is inside the token).    *)
(***************************************************************************)
LB == [c |-> "{"]
RB == [c |-> "}"]
Prose == [c |-> "x"]
Member(k, v) == [c |-> "m", key |-> k, val |-> v]

\* analysisText.match(/\{[\s\S]*\}/): greedy, from the first "{" to the last
\* "}" after it; <<>> stands for null (a match holds two braces at least)
JsonMatch(text) ==
    LET opens == {i \in 1..Len(text) : text[i] = LB}
    IN  IF opens = {} THEN <<>>
        ELSE LET first == CHOOSE i \in opens : \A j \in opens : i <= j
                 closes == {j \in first + 1..Len(text) : text[j] = RB}
             IN  IF closes = {} THEN <<>>
                 ELSE SubSeq(text, first,
                             CHOOSE j \in closes : \A k \in closes : j >= k)

\* whether JSON.parse accepts the matched substring: one object, members only
JsonParses(s) ==
    /\ Len(s) >= 2
    /\ s[1] = LB
    /\ s[Len(s)] = RB
    /\ \A i \in 2..Len(s) - 1 : s[i].c = "m"

\* JSON.parse of an accepted substring: the last member of a key wins
JsonParse(s) ==
    LET keys == {s[i].key : i \in 2..Len(s) - 1}
        last(k) == CHOOSE i \in 2..Len(s) - 1 :
                      /\ s[i].key = k
                      /\ \A j \in 2..Len(s) - 1 : s[j].key = k => j <= i
    IN  [k \in keys |-> s[last(k)].val]

(***************************************************************************)
(* The defaults of the field mapping and the fallback analysis.            *)
(***************************************************************************)
DefaultRiskAssessment ==
    JObj([overallRisk |-> JStr("medium"), risks |-> JArr(<<>>),
          totalScore |-> JNum(50)])

DefaultComplianceCheck ==
    JObj([overallCompliance |-> JNum(70), missingClauses |-> JArr(<<>>),
          nonStandardClauses |-> JArr(<<>>), recommendations |-> JArr(<<>>)])

DefaultExecutiveSummary ==
    JObj([overview |-> JStr("Analysis completed"), keyHighlights |-> JArr(<<>>),
          majorConcerns |-> JArr(<<>>),
          recommendation |-> JStr("Review recommended")])

DefaultConfidenceScore == JNum(75)

\* the object built from a parsed answer, stamped at time t
MappedAnalysis(parsedAnalysis, t) ==
    [documentId |-> "",
     keyTerms |-> Or(Prop(parsedAnalysis, "keyTerms"), JArr(<<>>)),
     riskAssessment |->
         Or(Prop(parsedAnalysis, "riskAssessment"), DefaultRiskAssessment),
     clauseAnalysis |-> Or(Prop(parsedAnalysis, "clauseAnalysis"), JArr(<<>>)),
     complianceCheck |->
         Or(Prop(parsedAnalysis, "complianceCheck"), DefaultComplianceCheck),
     executiveSummary |->
         Or(Prop(parsedAnalysis, "executiveSummary"), DefaultExecutiveSummary),
     confidenceScore |->
         Or(Prop(parsedAnalysis, "confidenceScore"), DefaultConfidenceScore),
     processedAt |-> t]

FallbackAnalysis(t) ==
    [documentId |-> "",
     keyTerms |-> JArr(<<
         JObj([type |-> JStr("other"), value |-> JStr("Analysis completed"),
               confidence |-> JNum(50), location |-> JStr("Document")]) >>),
     riskAssessment |-> JObj([
         overallRisk |-> JStr("medium"),
         risks |-> JArr(<<
             JObj([category |-> JStr("General"),
                   description |->
                       JStr("Document processed but detailed analysis unavailable"),
                   severity |-> JStr("medium"),
                   recommendation |-> JStr("Manual review recommended"),
                   confidence |-> JNum(50)]) >>),
         totalScore |-> JNum(50)]),
     clauseAnalysis |-> JArr(<<
         JObj([clauseType |-> JStr("General"),
               content |-> JStr("Document processed"),
               isStandard |-> JBool(TRUE), unusualAspects |-> JArr(<<>>),
               recommendation |-> JStr("Manual review recommended")]) >>),
     complianceCheck |-> JObj([
         overallCompliance |-> JNum(50), missingClauses |-> JArr(<<>>),
         nonStandardClauses |-> JArr(<<>>),
         recommendations |-> JArr(<<JStr("Manual review recommended")>>)]),
     executiveSummary |-> JObj([
         overview |-> JStr("Document processed successfully"),
         keyHighlights |-> JArr(<<JStr("Text extraction completed")>>),
         majorConcerns |-> JArr(<<JStr("Detailed analysis unavailable")>>),
         recommendation |-> JStr("Manual review recommended")]),
     confidenceScore |-> JNum(50),
     processedAt |-> t]

(***************************************************************************)
(* analyzeContractWithBedrock, from the model's response on.               *)
(***************************************************************************)
\* response.body as the client hands it over: bytes that are no JSON text,
\* or the JSON text of value v
GarbageBody == [raw |-> "garbage"]
JsonBody(v) == [raw |-> "json", v |-> v]

\* JSON.parse(new TextDecoder().decode(response.body))
DecodeBody(body) == IF body.raw = "json" THEN body.v ELSE Thrown

\* responseBody.content[0].text: the value read, or Thrown for a TypeError
TextSegment(responseBody) ==
    IF responseBody.t # "obj" THEN Thrown
    ELSE LET content == Prop(responseBody.o, "content")
         IN  IF content.t # "arr" \/ content.a = <<>> THEN Thrown
             ELSE LET first == content.a[1]
                  IN  CASE first.t = "null" -> Thrown
                        [] first.t = "obj" -> Prop(first.o, "text")
                        [] OTHER -> JUndefined

\* the try block with the field mapping's defaults, not the fallback, behind it
InterpretResponseDefaults(responseBody, t) ==
    LET analysisText == TextSegment(responseBody)
    IN  IF analysisText.t # "text" THEN FallbackAnalysis(t)
        ELSE LET jsonMatch == JsonMatch(analysisText.x)
             IN  IF jsonMatch # <<>> /\ JsonParses(jsonMatch)
                 THEN MappedAnalysis(JsonParse(jsonMatch), t)
                 ELSE MappedAnalysis(<<>>, t)

\* the try block and the fallback behind it, stamped at time t
InterpretResponse(responseBody, t) ==
    LET analysisText == TextSegment(responseBody)
    IN  IF analysisText.t # "text" THEN FallbackAnalysis(t)
        ELSE LET jsonMatch == JsonMatch(analysisText.x)
             IN  IF jsonMatch = <<>> THEN FallbackAnalysis(t)
                 ELSE IF JsonParses(jsonMatch)
                      THEN MappedAnalysis(JsonParse(jsonMatch), t)
                      ELSE FallbackAnalysis(t)

\* what analyzeContractWithBedrock yields once the client has answered with
\* body: a ContractAnalysis, or Thrown
AnalyzeResponse(body, t) ==
    LET responseBody == DecodeBody(body)
    IN  IF responseBody = Thrown THEN Thrown
        ELSE InterpretResponse(responseBody, t)

(***************************************************************************)
(* The answers the model endpoint gives in this model.                     *)
(***************************************************************************)
KeyTermsIn ==
    JArr(<< JObj([type |-> JStr("party"), value |-> JStr("Acme Ltd"),
                  confidence |-> JNum(100), location |-> JStr("p.1")]) >>)
KeyTermsOut ==
    JArr(<< JObj([type |-> JStr("signature"), value |-> JStr("Acme Ltd"),
                  confidence |-> JNum(140)]) >>)
RiskIn ==
    JObj([overallRisk |-> JStr("high"),
          risks |-> JArr(<< JObj([category |-> JStr("Liability"),
                                  description |-> JStr("Uncapped"),
                                  severity |-> JStr("critical"),
                                  recommendation |-> JStr("Cap it"),
                                  confidence |-> JNum(80)]) >>),
          totalScore |-> JNum(90)])
RiskOut ==
    JObj([overallRisk |-> JStr("extreme"), risks |-> JArr(<<>>),
          totalScore |-> JNum(500)])
ClausesIn ==
    JArr(<< JObj([clauseType |-> JStr("Termination"),
                  content |-> JStr("30 days"), isStandard |-> JBool(FALSE),
                  unusualAspects |-> JArr(<<JStr("short notice")>>),
                  recommendation |-> JStr("Extend")]) >>)
ComplianceIn ==
    JObj([overallCompliance |-> JNum(80), missingClauses |-> JArr(<<>>),
          nonStandardClauses |-> JArr(<<>>), recommendations |-> JArr(<<>>)])
SummaryIn ==
    JObj([overview |-> JStr("Supply agreement"), keyHighlights |-> JArr(<<>>),
          majorConcerns |-> JArr(<<>>), recommendation |-> JStr("Sign")])
ConfidenceIn == JNum(85)

FullObject ==
    << LB, Member("keyTerms", KeyTermsIn), Member("riskAssessment", RiskIn),
       Member("clauseAnalysis", ClausesIn),
       Member("complianceCheck", ComplianceIn),
       Member("executiveSummary", SummaryIn),
       Member("confidenceScore", ConfidenceIn), RB >>

ModelTexts ==
    { <<>>,                                          \* empty answer
      <<Prose>>,                                     \* prose, no object
      <<Prose, RB, LB>>,                             \* braces that match nothing
      <<LB, Prose, RB>>,                             \* braces around no JSON
      <<Prose>> \o FullObject,                       \* prose, then a full object
      FullObject \o <<Prose, RB>>,                   \* a brace in trailing prose
      <<LB, Member("keyTerms", KeyTermsIn),          \* sections missing or null
            Member("riskAssessment", JNull),
            Member("confidenceScore", JNum(0)), RB>>,
      <<LB, Member("keyTerms", KeyTermsOut),         \* values outside the domains
            Member("riskAssessment", RiskOut),
            Member("confidenceScore", JNum(150)), RB>> }

TextBody(text) ==
    JsonBody(JObj([content |-> JArr(<<JObj([type |-> JStr("text"),
                                            text |-> JText(text)])>>)]))

ModelResponses ==
    { GarbageBody,                                             \* no JSON at all
      JsonBody(JNull),
      JsonBody(JObj([id |-> JStr("msg")])),                    \* no content
      JsonBody(JObj([content |-> JArr(<<>>)])),                \* no segment
      JsonBody(JObj([content |-> JArr(<<JObj([type |-> JStr("image")])>>)])),
      JsonBody(JObj([content |-> JArr(<<JObj([text |-> JNum(42)])>>)])) }
    \cup {TextBody(text) : text \in ModelTexts}

(***************************************************************************)
(* Text resolution: S3 bytes decoded as UTF-8, or Textract LINE blocks.    *)
(***************************************************************************)
ReplacementChar == 65533
NewLine == 10

\* Body.transformToString(): UTF-8 decoding of one- and two-byte sequences;
\* a byte that starts or continues nothing decodes to U+FFFD
RECURSIVE transformToString(_)
transformToString(bytes) ==
    IF bytes = <<>> THEN <<>>
    ELSE LET b == Head(bytes)
         IN  IF b < 128 THEN <<b>> \o transformToString(Tail(bytes))
             ELSE IF /\ b \in 194..223
                     /\ Len(bytes) >= 2
                     /\ bytes[2] \in 128..191
                  THEN <<(b - 192) * 64 + (bytes[2] - 128)>>
                           \o transformToString(Tail(Tail(bytes)))
                  ELSE <<ReplacementChar>> \o transformToString(Tail(bytes))

\* Array.prototype.join('\n') over the texts; an undefined text joins as ''
RECURSIVE JoinLines(_)
JoinLines(texts) ==
    IF texts = <<>> THEN <<>>
    ELSE IF Len(texts) = 1 THEN texts[1]
    ELSE texts[1] \o <<NewLine>> \o JoinLines(Tail(texts))

\* Blocks.map(Text) with no filter: the text of every block
AllBlockTexts(blocks) ==
    [n \in DOMAIN blocks |->
        IF blocks[n].Text = <<>> THEN <<>> ELSE blocks[n].Text[1]]

\* Blocks?.filter(LINE).map(Text).join('\n') || ''
\* (result.Blocks is <<>> when undefined, <<blocks>> otherwise; so is Text)
RECURSIVE LineTexts(_)
LineTexts(blocks) ==
    IF blocks = <<>> THEN <<>>
    ELSE IF Head(blocks).BlockType = "LINE"
         THEN << IF Head(blocks).Text = <<>> THEN <<>> ELSE Head(blocks).Text[1] >>
                  \o LineTexts(Tail(blocks))
         ELSE LineTexts(Tail(blocks))

TextractText(textractResult) ==
    IF textractResult.Blocks = <<>> THEN <<>>
    ELSE JoinLines(LineTexts(textractResult.Blocks[1]))

\* the objects GetObject may return and the results Textract may give
Hello == <<72, 101, 108, 108, 111>>
FileContents == { <<>>, Hello, <<72, 195, 169, 255>> }
Block(type, text) == [BlockType |-> type, Text |-> <<text>>]
OcrResults ==
    { [Blocks |-> <<>>],
      [Blocks |-> << << Block("PAGE", <<>>), Block("LINE", <<72, 105>>),
                        Block("WORD", <<72, 105>>), Block("LINE", <<79>>) >> >>],
      [Blocks |-> << << [BlockType |-> "LINE", Text |-> <<>>],
                        Block("LINE", <<79>>) >> >>] }

(***************************************************************************)
(* The DynamoDB table: a partial map from id to item, an item a map from   *)
(* attribute name to value.                                                *)
(***************************************************************************)
\* a write that replaces the item by its key and the attributes set
UpdateItemReplaces(table, id, sets) ==
    [d \in DOMAIN table \cup {id} |->
        IF d = id
        THEN [a \in {"id"} \cup DOMAIN sets |->
                 IF a \in DOMAIN sets THEN sets[a] ELSE id]
        ELSE table[d]]

\* UpdateCommand with a SET expression: merges into the item, creating it if
\* the key is new
UpdateItem(table, id, sets) ==
    LET old == IF id \in DOMAIN table THEN table[id] ELSE [id |-> id]
        new == [a \in DOMAIN old \cup DOMAIN sets |->
                    IF a \in DOMAIN sets THEN sets[a] ELSE old[a]]
    IN  [d \in DOMAIN table \cup {id} |-> IF d = id THEN new ELSE table[d]]

\* PutCommand: replaces the whole item
PutItem(table, item) ==
    [d \in DOMAIN table \cup {item.id} |->
        IF d = item.id THEN item ELSE table[d]]

(***************************************************************************)
(* event.body of a processing request.                                     *)
(***************************************************************************)
NullBody == [kind |-> "null"]
EmptyBody == [kind |-> "empty"]
MalformedBody == [kind |-> "malformed"]
JsonEvent(v) == [kind |-> "json", v |-> v]

\* if (event.body)
BodyTruthy(body) == body.kind \notin {"null", "empty"}

\* JSON.parse(event.body)
ParseEventBody(body) == IF body.kind = "json" THEN body.v ELSE Thrown

\* const { documentId } = value
DestructureDocumentId(value) ==
    CASE value.t = "thrown" -> Thrown
      [] value.t \in {"null", "undefined"} -> Thrown
      [] value.t = "obj" -> Prop(value.o, "documentId")
      [] OTHER -> JUndefined

EventBodies ==
    { NullBody, EmptyBody, MalformedBody, JsonEvent(JNull),
      JsonEvent(JObj(<<>>)), JsonEvent(JObj([documentId |-> JStr("")])),
      JsonEvent(JObj([documentId |-> JNum(7)])) }
    \cup {JsonEvent(JObj([documentId |-> JStr(d)])) : d \in DocIds}

(***************************************************************************)
(* State.                                                                  *)
(***************************************************************************)
VARIABLES
    store,       \* the DynamoDB table: id -> item
    inv,         \* the processing invocations: their locals and position
    now,         \* the wall clock new Date() reads
    lastWriter,  \* history: id -> the invocation whose write was applied last
    probe,       \* an input and the result of the function applied to it
    page         \* the state of the upload page in the browser

vars == <<store, inv, now, lastWriter, probe, page>>

\* the upload page as it is mounted: its useState values, the position of
\* handleUpload, the timers it has set, and where it has navigated
InitialPage ==
    [uploadStatus |-> "idle",    \* idle, uploading, processing, completed, error
     progress |-> 0,
     selectedFile |-> <<>>,
     error |-> <<>>,
     documentId |-> <<>>,
     pc |-> "none",              \* handleUpload: none, initiate, s3put, process
     invocation |-> 0,           \* history: the invocation processDocument started
     steps |-> <<>>,             \* history: the steps of this handleUpload, in order
     failedAt |-> "none",        \* history: the step whose error was caught
     timers |-> <<>>,            \* the setTimeout callbacks not yet run
     navigated |-> <<>>]         \* history: where navigate() went, and from where

\* no function is being probed
NoProbe == [stage |-> "off", input |-> <<>>, result |-> <<>>]

\* the APIGatewayProxyResult bodies of the processing handler
NoResponse == [statusCode |-> 0, success |-> FALSE, error |-> "", data |-> <<>>]
Failure(code, message) ==
    [statusCode |-> code, success |-> FALSE, error |-> message, data |-> <<>>]
Success(analysis) ==
    [statusCode |-> 200, success |-> TRUE, error |-> "", data |-> <<analysis>>]

\* an invocation that has not been started
IdleInvocation ==
    [pc |-> "idle",              \* idle, get, s3, textract, bedrock, update, catch, done
     body |-> NullBody,          \* event.body
     documentId |-> JUndefined,
     document |-> <<>>,          \* docResult.Item, while text is resolved
     extractedText |-> <<>>,     \* the text, while the model works on it
     resolved |-> <<>>,          \* history: the answer the text was taken from
     analysis |-> <<>>,          \* what analyzeContractWithBedrock returned
     outcome |-> "none",         \* none, returned, threw
     response |-> NoResponse,
     thrownAt |-> "none",        \* the call whose error entered the catch block
     gets |-> 0, s3Reads |-> 0, ocrCalls |-> 0, modelCalls |-> 0,
     writes |-> <<>>,            \* the UpdateCommands sent: status, applied or not
     concurrentWith |-> {},      \* history: invocations in flight when it started
     absentAtStart |-> FALSE]    \* history: the id had no item when it started

Init ==
    /\ store = <<>>
    /\ inv = [i \in Invs |-> IdleInvocation]
    /\ now = 0
    /\ lastWriter = <<>>
    /\ probe = NoProbe
    /\ page = InitialPage

InFlight(i) == inv[i].pc \notin {"idle", "done"}

Return(r, response) ==
    [r EXCEPT !.pc = "done", !.outcome = "returned", !.response = response]

Throw(r) == [r EXCEPT !.pc = "done", !.outcome = "threw"]

\* a catch block that answers 500 and sends no UpdateCommand
CatchBlockNoWrite(r, stage) ==
    [r EXCEPT !.thrownAt = stage, !.document = <<>>, !.extractedText = <<>>,
              !.resolved = <<>>, !.pc = "done", !.outcome = "returned",
              !.response = [statusCode |-> 500, success |-> FALSE,
                            error |-> "Processing failed", data |-> <<>>]]

\* the catch block up to its await: the error of call `stage` was caught
\* (the locals of the try block are out of scope)
CatchBlock(r, stage) ==
    LET c == [r EXCEPT !.thrownAt = stage, !.document = <<>>,
                       !.extractedText = <<>>, !.resolved = <<>>]
    IN  IF BodyTruthy(c.body)
        THEN LET documentId == DestructureDocumentId(ParseEventBody(c.body))
             IN  IF documentId = Thrown THEN Throw(c)
                 ELSE IF Truthy(documentId) THEN [c EXCEPT !.pc = "catch"]
                 ELSE Return(c, Failure(500, "Processing failed"))
        ELSE Return(c, Failure(500, "Processing failed"))

\* the table accepts a key only of the type of its id attribute, a string
ValidKey(documentId) == documentId.t = "str"

(***************************************************************************)
(* The processing handler.                                                 *)
(***************************************************************************)
\* the handler is invoked with event.body = body and runs to its first await
HandlerRuns(i, body) ==
    /\ inv[i].pc = "idle"
    /\ \A j \in Invs : j < i => inv[j].pc # "idle"
    /\ LET documentId == DestructureDocumentId(
                             IF BodyTruthy(body) THEN ParseEventBody(body)
                             ELSE JObj(<<>>))
           r == [inv[i] EXCEPT !.body = body,
                               !.concurrentWith = {j \in Invs : InFlight(j)},
                               !.absentAtStart = /\ documentId.t = "str"
                                                 /\ Truthy(documentId)
                                                 /\ documentId.s \notin DOMAIN store]
       IN  inv' = [inv EXCEPT ![i] =
               IF documentId = Thrown THEN CatchBlock(r, "parse")
               ELSE IF ~Truthy(documentId)
                    THEN Return(r, Failure(400, "Document ID is required"))
                    ELSE [r EXCEPT !.pc = "get", !.documentId = documentId,
                                   !.gets = @ + 1]]
    /\ UNCHANGED <<store, now, lastWriter, probe>>

\* an invocation a caller other than the page has asked for
HandlerStart(i, body) == HandlerRuns(i, body) /\ UNCHANGED page

\* GetCommand answers, and every item goes to Textract whatever its type
GetAnswersAlwaysOcr(i) ==
    /\ inv[i].pc = "get"
    /\ ValidKey(inv[i].documentId)
    /\ LET id == inv[i].documentId.s
       IN  inv' = [inv EXCEPT ![i] =
               IF id \notin DOMAIN store
               THEN Return(@, Failure(404, "Document not found"))
               ELSE [@ EXCEPT !.pc = "textract", !.document = <<store[id]>>,
                              !.ocrCalls = @ + 1]]
    /\ UNCHANGED <<store, now, lastWriter, probe, page>>

\* GetCommand answers: the item, or none
GetAnswers(i) ==
    /\ inv[i].pc = "get"
    /\ ValidKey(inv[i].documentId)
    /\ LET id == inv[i].documentId.s
       IN  inv' = [inv EXCEPT ![i] =
               IF id \notin DOMAIN store
               THEN Return(@, Failure(404, "Document not found"))
               ELSE IF /\ "contentType" \in DOMAIN store[id]
                       /\ store[id].contentType = "text/plain"
                    THEN [@ EXCEPT !.pc = "s3", !.document = <<store[id]>>,
                                   !.s3Reads = @ + 1]
                    ELSE [@ EXCEPT !.pc = "textract", !.document = <<store[id]>>,
                                   !.ocrCalls = @ + 1]]
    /\ UNCHANGED <<store, now, lastWriter, probe, page>>

\* GetCommand rejects
GetFails(i) ==
    /\ inv[i].pc = "get"
    /\ inv' = [inv EXCEPT ![i] = CatchBlock(@, "get")]
    /\ UNCHANGED <<store, now, lastWriter, probe, page>>

\* GetObjectCommand answers and an empty body is taken for an extraction
\* error
S3AnswersRejectsEmpty(i, bytes) ==
    /\ inv[i].pc = "s3"
    /\ inv' = [inv EXCEPT ![i] =
           IF transformToString(bytes) = <<>> THEN CatchBlock(@, "s3")
           ELSE [@ EXCEPT !.pc = "bedrock", !.document = <<>>,
                          !.extractedText = transformToString(bytes),
                          !.resolved = <<[from |-> "s3", bytes |-> bytes]>>,
                          !.modelCalls = @ + 1]]
    /\ UNCHANGED <<store, now, lastWriter, probe, page>>

\* GetObjectCommand answers and its body is read; the model is called
S3Answers(i, bytes) ==
    /\ inv[i].pc = "s3"
    /\ inv' = [inv EXCEPT ![i] =
           [@ EXCEPT !.pc = "bedrock", !.document = <<>>,
                     !.extractedText = transformToString(bytes),
                     !.resolved = <<[from |-> "s3", bytes |-> bytes]>>,
                     !.modelCalls = @ + 1]]
    /\ UNCHANGED <<store, now, lastWriter, probe, page>>

\* GetObjectCommand rejects, or reading its body does
S3Fails(i) ==
    /\ inv[i].pc = "s3"
    /\ inv' = [inv EXCEPT ![i] = CatchBlock(@, "s3")]
    /\ UNCHANGED <<store, now, lastWriter, probe, page>>

\* DetectDocumentTextCommand answers; the model is called (the command is
\* rejected when the item holds no s3Key to name the object by)
TextractAnswers(i, textractResult) ==
    /\ inv[i].pc = "textract"
    /\ "s3Key" \in DOMAIN inv[i].document[1]
    /\ inv' = [inv EXCEPT ![i] =
           [@ EXCEPT !.pc = "bedrock", !.document = <<>>,
                     !.extractedText = TextractText(textractResult),
                     !.resolved = <<[from |-> "textract",
                                     result |-> textractResult]>>,
                     !.modelCalls = @ + 1]]
    /\ UNCHANGED <<store, now, lastWriter, probe, page>>

\* DetectDocumentTextCommand rejects and the error is swallowed: the model is
\* called on an empty text
TextractErrorSwallowed(i) ==
    /\ inv[i].pc = "textract"
    /\ inv' = [inv EXCEPT ![i] =
           [@ EXCEPT !.pc = "bedrock", !.document = <<>>,
                     !.thrownAt = "textract", !.modelCalls = @ + 1]]
    /\ UNCHANGED <<store, now, lastWriter, probe, page>>

\* DetectDocumentTextCommand rejects
TextractFails(i) ==
    /\ inv[i].pc = "textract"
    /\ inv' = [inv EXCEPT ![i] = CatchBlock(@, "textract")]
    /\ UNCHANGED <<store, now, lastWriter, probe, page>>

\* InvokeModelCommand answers with body; the answer is interpreted and the
\* UpdateCommand of the result is sent
BedrockAnswers(i, body) ==
    /\ inv[i].pc = "bedrock"
    /\ LET analysis == AnalyzeResponse(body, now)
       IN  inv' = [inv EXCEPT ![i] =
               IF analysis = Thrown THEN CatchBlock(@, "decode")
               ELSE [@ EXCEPT !.pc = "update", !.extractedText = <<>>,
                              !.resolved = <<>>, !.analysis = <<analysis>>]]
    /\ UNCHANGED <<store, now, lastWriter, probe, page>>

\* InvokeModelCommand rejects and is sent once more before the handler gives up
BedrockFailsRetried(i) ==
    /\ inv[i].pc = "bedrock"
    /\ inv' = [inv EXCEPT ![i] =
           IF @.modelCalls < 2 THEN [@ EXCEPT !.modelCalls = @ + 1]
           ELSE CatchBlock(@, "bedrock")]
    /\ UNCHANGED <<store, now, lastWriter, probe, page>>

\* InvokeModelCommand rejects
BedrockFails(i) ==
    /\ inv[i].pc = "bedrock"
    /\ inv' = [inv EXCEPT ![i] = CatchBlock(@, "bedrock")]
    /\ UNCHANGED <<store, now, lastWriter, probe, page>>

\* the UpdateCommand of the result is applied, and the answer carries an
\* analysis stamped anew, not the one written
UpdateCompletedRestamped(i, processedAt) ==
    /\ inv[i].pc = "update"
    /\ processedAt \in inv[i].analysis[1].processedAt..now
    /\ LET id == inv[i].documentId.s
       IN  /\ store' = UpdateItem(store, id,
                           [status |-> "completed",
                            analysis |-> inv[i].analysis[1],
                            processedAt |-> processedAt])
           /\ lastWriter' = [d \in DOMAIN lastWriter \cup {id} |->
                                IF d = id THEN i ELSE lastWriter[d]]
    /\ inv' = [inv EXCEPT ![i] =
           Return([@ EXCEPT !.writes = Append(@, [status |-> "completed",
                                                  applied |-> TRUE,
                                                  processedAt |-> processedAt])],
                  Success([inv[i].analysis[1] EXCEPT !.processedAt = now]))]
    /\ UNCHANGED <<now, probe, page>>

\* the UpdateCommand of the result under a single-flight guard: a conditional
\* write, applied only while the record is at 'processing'
UpdateCompletedIfProcessing(i, processedAt) ==
    /\ inv[i].pc = "update"
    /\ processedAt \in inv[i].analysis[1].processedAt..now
    /\ inv[i].documentId.s \in DOMAIN store
    /\ store[inv[i].documentId.s].status = "processing"
    /\ LET id == inv[i].documentId.s
       IN  /\ store' = UpdateItem(store, id,
                           [status |-> "completed",
                            analysis |-> inv[i].analysis[1],
                            processedAt |-> processedAt])
           /\ lastWriter' = [d \in DOMAIN lastWriter \cup {id} |->
                                IF d = id THEN i ELSE lastWriter[d]]
    /\ inv' = [inv EXCEPT ![i] =
           Return([@ EXCEPT !.writes = Append(@, [status |-> "completed",
                                                  applied |-> TRUE,
                                                  processedAt |-> processedAt])],
                  Success(inv[i].analysis[1]))]
    /\ UNCHANGED <<now, probe, page>>

\* the UpdateCommand of the result is applied; its processedAt was read from
\* the clock between the interpretation and now
UpdateCompletedApplied(i, processedAt) ==
    /\ inv[i].pc = "update"
    /\ processedAt \in inv[i].analysis[1].processedAt..now
    /\ LET id == inv[i].documentId.s
       IN  /\ store' = UpdateItem(store, id,
                           [status |-> "completed",
                            analysis |-> inv[i].analysis[1],
                            processedAt |-> processedAt])
           /\ lastWriter' = [d \in DOMAIN lastWriter \cup {id} |->
                                IF d = id THEN i ELSE lastWriter[d]]
    /\ inv' = [inv EXCEPT ![i] =
           Return([@ EXCEPT !.writes = Append(@, [status |-> "completed",
                                                  applied |-> TRUE,
                                                  processedAt |-> processedAt])],
                  Success(inv[i].analysis[1]))]
    /\ UNCHANGED <<now, probe, page>>

\* the UpdateCommand of the result rejects and the handler answers 500 at
\* once, sending no second UpdateCommand
UpdateCompletedFailsNoRetry(i) ==
    /\ inv[i].pc = "update"
    /\ inv' = [inv EXCEPT ![i] =
           [@ EXCEPT !.writes = Append(@, [status |-> "completed",
                                           applied |-> FALSE]),
                     !.thrownAt = "update", !.pc = "done",
                     !.outcome = "returned",
                     !.response = [statusCode |-> 500, success |-> FALSE,
                                   error |-> "Processing failed",
                                   data |-> <<>>]]]
    /\ UNCHANGED <<store, now, lastWriter, probe, page>>

\* the UpdateCommand of the result rejects
UpdateCompletedFails(i) ==
    /\ inv[i].pc = "update"
    /\ inv' = [inv EXCEPT ![i] =
           CatchBlock([@ EXCEPT !.writes = Append(@, [status |-> "completed",
                                                      applied |-> FALSE])],
                      "update")]
    /\ UNCHANGED <<store, now, lastWriter, probe, page>>

\* the catch block's UpdateCommand stamps the failure: it sets processedAt
\* next to the status
UpdateFailedStamps(i) ==
    /\ inv[i].pc = "catch"
    /\ ValidKey(inv[i].documentId)
    /\ LET id == inv[i].documentId.s
       IN  /\ store' = UpdateItem(store, id,
                           [status |-> "failed", processedAt |-> now])
           /\ lastWriter' = [d \in DOMAIN lastWriter \cup {id} |->
                                IF d = id THEN i ELSE lastWriter[d]]
    /\ inv' = [inv EXCEPT ![i] =
           Return([@ EXCEPT !.writes = Append(@, [status |-> "failed",
                                                  applied |-> TRUE])],
                  Failure(500, "Processing failed"))]
    /\ UNCHANGED <<now, probe, page>>

\* the catch block's UpdateCommand puts the record back to 'processing', for
\* another attempt
UpdateFailedResets(i) ==
    /\ inv[i].pc = "catch"
    /\ ValidKey(inv[i].documentId)
    /\ LET id == inv[i].documentId.s
       IN  /\ store' = UpdateItem(store, id, [status |-> "processing"])
           /\ lastWriter' = [d \in DOMAIN lastWriter \cup {id} |->
                                IF d = id THEN i ELSE lastWriter[d]]
    /\ inv' = [inv EXCEPT ![i] =
           Return([@ EXCEPT !.writes = Append(@, [status |-> "failed",
                                                  applied |-> TRUE])],
                  Failure(500, "Processing failed"))]
    /\ UNCHANGED <<now, probe, page>>

\* the catch block's UpdateCommand is applied
UpdateFailedApplied(i) ==
    /\ inv[i].pc = "catch"
    /\ ValidKey(inv[i].documentId)
    /\ LET id == inv[i].documentId.s
       IN  /\ store' = UpdateItem(store, id, [status |-> "failed"])
           /\ lastWriter' = [d \in DOMAIN lastWriter \cup {id} |->
                                IF d = id THEN i ELSE lastWriter[d]]
    /\ inv' = [inv EXCEPT ![i] =
           Return([@ EXCEPT !.writes = Append(@, [status |-> "failed",
                                                  applied |-> TRUE])],
                  Failure(500, "Processing failed"))]
    /\ UNCHANGED <<now, probe, page>>

\* the catch block's UpdateCommand rejects and the error is swallowed: the
\* handler answers 500 with no status written
UpdateFailedFailsSwallowed(i) ==
    /\ inv[i].pc = "catch"
    /\ inv' = [inv EXCEPT ![i] =
           Return([@ EXCEPT !.writes = Append(@, [status |-> "failed",
                                                  applied |-> FALSE])],
                  Failure(500, "Processing failed"))]
    /\ UNCHANGED <<store, now, lastWriter, probe, page>>

\* the catch block's UpdateCommand rejects: the error leaves the handler
UpdateFailedFails(i) ==
    /\ inv[i].pc = "catch"
    /\ inv' = [inv EXCEPT ![i] =
           Throw([@ EXCEPT !.writes = Append(@, [status |-> "failed",
                                                 applied |-> FALSE])])]
    /\ UNCHANGED <<store, now, lastWriter, probe, page>>

(***************************************************************************)
(* The upload handler, and the clock.                                      *)
(***************************************************************************)
allowedTypes ==
    { "application/pdf",
      "application/vnd.openxmlformats-officedocument.wordprocessingml.document",
      "text/plain" }

FileNames == {"", "contract.pdf"}
FileSizes == {0, 2048, 11534336}
ContentTypes == allowedTypes \cup {"", "image/png"}

\* ids a processing request has named: uuidv4() does not produce them
Requested == {inv[i].documentId.s : i \in {j \in Invs : inv[j].documentId.t = "str"}}

\* the items the upload handler has created
Uploaded == {d \in DOMAIN store : "uploadedAt" \in DOMAIN store[d]}

\* the upload handler, whose only effect on the table is its PutCommand
UploadRuns(fileName, fileSize, contentType, documentId) ==
    /\ fileName # "" /\ fileSize # 0 /\ contentType # ""
    /\ contentType \in allowedTypes
    /\ documentId \notin DOMAIN store \cup Requested
    /\ Cardinality(Uploaded) < MaxUploads
    /\ store' = PutItem(store,
                    [id |-> documentId,
                     fileName |-> fileName,
                     fileSize |-> fileSize,
                     uploadedAt |-> now,
                     status |-> "processing",
                     s3Key |-> <<"documents", documentId, fileName>>,
                     contentType |-> contentType])
    /\ UNCHANGED <<inv, now, lastWriter, probe>>

\* an upload a caller other than the page has asked for
UploadHandler(fileName, fileSize, contentType, documentId) ==
    UploadRuns(fileName, fileSize, contentType, documentId) /\ UNCHANGED page

Tick ==
    /\ now < MaxClock
    /\ now' = now + 1
    /\ UNCHANGED <<store, inv, lastWriter, probe, page>>

Next ==
    \/ \E i \in Invs, body \in EventBodies : HandlerStart(i, body)
    \/ \E i \in Invs : GetAnswers(i)
    \/ \E i \in Invs : GetFails(i)
    \/ \E i \in Invs, bytes \in FileContents : S3Answers(i, bytes)
    \/ \E i \in Invs : S3Fails(i)
    \/ \E i \in Invs, result \in OcrResults : TextractAnswers(i, result)
    \/ \E i \in Invs : TextractFails(i)
    \/ \E i \in Invs, body \in ModelResponses : BedrockAnswers(i, body)
    \/ \E i \in Invs : BedrockFails(i)
    \/ \E i \in Invs, t \in Times : UpdateCompletedApplied(i, t)
    \/ \E i \in Invs : UpdateCompletedFails(i)
    \/ \E i \in Invs : UpdateFailedApplied(i)
    \/ \E i \in Invs : UpdateFailedFails(i)
    \/ \E fileName \in FileNames, fileSize \in FileSizes,
          contentType \in ContentTypes, documentId \in DocIds :
           UploadHandler(fileName, fileSize, contentType, documentId)
    \/ Tick

Spec == Init /\ [][Next]_vars

(***************************************************************************)
(* The response interpreter and the OCR text as functions: an input is     *)
(* drawn, the code is applied to it once, and the result is kept next to   *)
(* the input.                                                              *)
(***************************************************************************)
\* characters around the object in a model answer
MaxAffix == 1
\* blocks in a Textract result
MaxBlocks == 3

\* the sequences over S of at most n elements
SeqsUpTo(S, n) == UNION {[1..k -> S] : k \in 0..n}

SectionKeys ==
    << "keyTerms", "riskAssessment", "clauseAnalysis", "complianceCheck",
       "executiveSummary", "confidenceScore" >>

\* the sections an answer's object may hold (JUndefined: the key is missing)
AnswerObjects ==
    [keyTerms : {JUndefined, JNull, JArr(<<>>), KeyTermsIn},
     riskAssessment : {JUndefined, JNull, RiskIn},
     clauseAnalysis : {JUndefined, JArr(<<>>), ClausesIn},
     complianceCheck : {JUndefined, JNull, ComplianceIn},
     executiveSummary : {JUndefined, JNull, SummaryIn},
     confidenceScore : {JUndefined, JNull, JNum(0), ConfidenceIn, JNum(100)}]

\* the members of the first n sections, as the answer's text holds them
RECURSIVE Members(_, _)
Members(sections, n) ==
    IF n = 0 THEN <<>>
    ELSE Members(sections, n - 1)
             \o (IF sections[SectionKeys[n]] = JUndefined THEN <<>>
                 ELSE <<Member(SectionKeys[n], sections[SectionKeys[n]])>>)

\* the JSON text of an object of sections
ObjectText(sections) ==
    <<LB>> \o Members(sections, Len(SectionKeys)) \o <<RB>>

\* what the model writes before the object, and after it
Leaders == SeqsUpTo({Prose, LB, RB}, MaxAffix)
Trailers ==
    SeqsUpTo({Prose, LB, RB}, MaxAffix)
        \cup {<<Prose, LB, Member("confidenceScore", ConfidenceIn), RB>>}

\* an object with no section
NoSections == [n \in {SectionKeys[k] : k \in DOMAIN SectionKeys} |-> JUndefined]

\* an answer: between a leader and a trailer an object of sections, nothing,
\* or braces around text that is no JSON
Answers ==
    [shape : {"object"}, pre : Leaders, sections : AnswerObjects,
     post : Trailers]
    \cup [shape : {"none", "garbled"}, pre : Leaders, sections : {NoSections},
          post : Trailers]

\* the text of an answer
AnswerText(answer) ==
    answer.pre
        \o (CASE answer.shape = "object" -> ObjectText(answer.sections)
              [] answer.shape = "garbled" -> <<LB, Prose, RB>>
              [] OTHER -> <<>>)
        \o answer.post

\* the blocks of a Textract result
BlockKinds ==
    { Block("PAGE", <<>>), Block("LINE", <<72, 105>>), Block("LINE", <<79>>),
      Block("WORD", <<72, 105>>), [BlockType |-> "LINE", Text |-> <<>>] }

OcrInputs ==
    {[Blocks |-> <<>>]}
        \cup {[Blocks |-> <<blocks>>] : blocks \in SeqsUpTo(BlockKinds, MaxBlocks)}

ProbeInit ==
    /\ store = <<>>
    /\ inv = [i \in Invs |-> IdleInvocation]
    /\ now = 0
    /\ lastWriter = <<>>
    /\ probe \in
           {[stage |-> "answer", input |-> answer, result |-> <<>>] :
               answer \in Answers}
           \cup {[stage |-> "ocr", input |-> textractResult, result |-> <<>>] :
                    textractResult \in OcrInputs}
    /\ page = InitialPage

\* analyzeContractWithBedrock on a response whose one segment is the answer
ProbeInterpreter ==
    /\ probe.stage = "answer"
    /\ probe' = [probe EXCEPT
                    !.stage = "interpreted",
                    !.result = <<AnalyzeResponse(
                                     TextBody(AnswerText(probe.input)), now)>>]
    /\ UNCHANGED <<store, inv, now, lastWriter, page>>

\* the text taken from a Textract result
ProbeTextract ==
    /\ probe.stage = "ocr"
    /\ probe' = [probe EXCEPT !.stage = "joined",
                              !.result = <<TextractText(probe.input)>>]
    /\ UNCHANGED <<store, inv, now, lastWriter, page>>

ProbeNext ==
    \/ ProbeInterpreter
    \/ ProbeTextract

ProbeSpec == ProbeInit /\ [][ProbeNext]_vars

(***************************************************************************)
(* The upload page in the browser, the two handlers it calls, and the      *)
(* Lambda service that ends an invocation at its timeout.                  *)
(***************************************************************************)
\* 10 * 1024 * 1024
maxSize == 10485760

\* the files a user may pick
Files == [name : FileNames \ {""}, size : FileSizes, type : ContentTypes]

\* FileUpload's validateFile
validateFile(file) ==
    /\ file.type \in allowedTypes
    /\ file.size <= maxSize

\* the page is on screen: it has not navigated away
Mounted == page.navigated = <<>>

\* handleUpload's catch block
Caught(p) ==
    [p EXCEPT !.error = <<"error">>, !.uploadStatus = "error", !.progress = 0,
              !.failedAt = p.pc, !.pc = "none"]

\* handleFileSelect, which FileUpload calls for a valid file; the drop zone
\* takes no pointer events while isUploading
PageSelectFile(file) ==
    /\ Mounted
    /\ page.uploadStatus \notin {"uploading", "processing"}
    /\ validateFile(file)
    /\ page' = [page EXCEPT !.selectedFile = <<file>>, !.error = <<>>,
                            !.uploadStatus = "idle"]
    /\ UNCHANGED <<store, inv, now, lastWriter, probe>>

\* the Analyze Contract button: handleUpload up to the initiateUpload request
PageStartUpload ==
    /\ Mounted
    /\ page.uploadStatus = "idle"
    /\ page.selectedFile # <<>>
    /\ page' = [page EXCEPT !.uploadStatus = "uploading", !.error = <<>>,
                            !.progress = 25, !.pc = "initiate",
                            !.steps = <<"initiate">>, !.failedAt = "none",
                            !.invocation = 0]
    /\ UNCHANGED <<store, inv, now, lastWriter, probe>>

\* the upload handler answers 200: handleUpload goes on to the PUT of the file
PageInitiateAnswers(documentId) ==
    /\ page.pc = "initiate"
    /\ UploadRuns(page.selectedFile[1].name, page.selectedFile[1].size,
                  page.selectedFile[1].type, documentId)
    /\ page' = [page EXCEPT !.documentId = <<documentId>>, !.progress = 50,
                            !.pc = "s3put", !.steps = Append(@, "s3put")]

\* initiateUpload rejects: the handler answered 400 or 500, or the request
\* was lost
PageInitiateFails ==
    /\ page.pc = "initiate"
    /\ page' = Caught(page)
    /\ UNCHANGED <<store, inv, now, lastWriter, probe>>

\* the PUT of the file succeeds: handleUpload asks for processing, and the
\* processing handler is invoked
PageS3PutAnswers(i) ==
    /\ page.pc = "s3put"
    /\ HandlerRuns(i, JsonEvent(JObj([documentId |-> JStr(page.documentId[1])])))
    /\ page' = [page EXCEPT !.progress = 75, !.uploadStatus = "processing",
                            !.pc = "process", !.invocation = i,
                            !.steps = Append(@, "process")]

\* the PUT of the file rejects
PageS3PutFails ==
    /\ page.pc = "s3put"
    /\ page' = Caught(page)
    /\ UNCHANGED <<store, inv, now, lastWriter, probe>>

\* the answer of the invocation is a 2xx whose body says success
Succeeded(i) ==
    /\ inv[i].pc = "done"
    /\ inv[i].outcome = "returned"
    /\ inv[i].response.statusCode = 200
    /\ inv[i].response.success

\* processDocument resolves: completed, and the navigation is scheduled
PageProcessAnswers ==
    /\ page.pc = "process"
    /\ Succeeded(page.invocation)
    /\ page' = [page EXCEPT !.progress = 100, !.uploadStatus = "completed",
                            !.pc = "none",
                            !.timers = Append(@, page.documentId[1])]
    /\ UNCHANGED <<store, inv, now, lastWriter, probe>>

\* processDocument rejects on the invocation's answer: a non-2xx status, or
\* the gateway's error for an invocation that threw or was ended
PageProcessRejected ==
    /\ page.pc = "process"
    /\ inv[page.invocation].pc = "done"
    /\ ~Succeeded(page.invocation)
    /\ page' = Caught(page)
    /\ UNCHANGED <<store, inv, now, lastWriter, probe>>

\* axios gives up after its timeout while the invocation is still running
PageProcessTimeout ==
    /\ page.pc = "process"
    /\ InFlight(page.invocation)
    /\ page' = Caught(page)
    /\ UNCHANGED <<store, inv, now, lastWriter, probe>>

\* the Try again link of the error card
PageTryAgain ==
    /\ Mounted
    /\ page.error # <<>>
    /\ page' = [page EXCEPT !.error = <<>>, !.uploadStatus = "idle",
                            !.progress = 0]
    /\ UNCHANGED <<store, inv, now, lastWriter, probe>>

\* the setTimeout callback runs: navigate to the results of the document
PageNavigate ==
    /\ page.timers # <<>>
    /\ page' = [page EXCEPT
                   !.timers = Tail(@),
                   !.navigated = Append(@, [from |-> page.uploadStatus,
                                            to |-> Head(page.timers)])]
    /\ UNCHANGED <<store, inv, now, lastWriter, probe>>

\* the Lambda service ends an invocation that has run for its timeout: the
\* process is stopped at its await, and no catch block runs
LambdaTimeout(i) ==
    /\ InFlight(i)
    /\ inv' = [inv EXCEPT ![i] =
           [@ EXCEPT !.pc = "done", !.outcome = "killed", !.document = <<>>,
                     !.extractedText = <<>>, !.resolved = <<>>]]
    /\ UNCHANGED <<store, now, lastWriter, probe, page>>

SystemNext ==
    \/ \E file \in Files : PageSelectFile(file)
    \/ PageStartUpload
    \/ \E documentId \in DocIds : PageInitiateAnswers(documentId)
    \/ PageInitiateFails
    \/ \E i \in Invs : PageS3PutAnswers(i)
    \/ PageS3PutFails
    \/ PageProcessAnswers
    \/ PageProcessRejected
    \/ PageProcessTimeout
    \/ PageTryAgain
    \/ PageNavigate
    \/ \E i \in Invs : GetAnswers(i)
    \/ \E i \in Invs : GetFails(i)
    \/ \E i \in Invs, bytes \in FileContents : S3Answers(i, bytes)
    \/ \E i \in Invs : S3Fails(i)
    \/ \E i \in Invs, result \in OcrResults : TextractAnswers(i, result)
    \/ \E i \in Invs : TextractFails(i)
    \/ \E i \in Invs, body \in ModelResponses : BedrockAnswers(i, body)
    \/ \E i \in Invs : BedrockFails(i)
    \/ \E i \in Invs, t \in Times : UpdateCompletedApplied(i, t)
    \/ \E i \in Invs : UpdateCompletedFails(i)
    \/ \E i \in Invs : UpdateFailedApplied(i)
    \/ \E i \in Invs : UpdateFailedFails(i)
    \/ \E i \in Invs : LambdaTimeout(i)
    \/ Tick

SystemSpec == Init /\ [][SystemNext]_vars

(***************************************************************************)
(* Properties.                                                             *)
(***************************************************************************)
Done(i) == inv[i].pc = "done"

\* the id invocation i works on, once it has one the table accepts
Target(i) == inv[i].documentId.s
HasTarget(i) == inv[i].documentId.t = "str"

\* the last UpdateCommand invocation i sent
LastWrite(i) == inv[i].writes[Len(inv[i].writes)]

GenericFailure(i) ==
    /\ inv[i].outcome = "returned"
    /\ inv[i].response = Failure(500, "Processing failed")

\* C1: a Document Record whose status is 'failed' has no analysis field, in
\* every reachable state of the table, also when an invocation fails for an
\* id that an earlier invocation had completed.
C1_FailedHasNoAnalysis ==
    \A d \in DOMAIN store :
        store[d].status = "failed" => "analysis" \notin DOMAIN store[d]

\* two invocations for the same id overlapped in time and both have ended
RacedOn(d) ==
    \E i, j \in Invs :
        /\ i # j /\ Done(i) /\ Done(j)
        /\ HasTarget(i) /\ HasTarget(j) /\ Target(i) = d /\ Target(j) = d
        /\ i \in inv[j].concurrentWith

\* C2: after two concurrent invocations for one id have both ended, status,
\* analysis and processedAt of the record are exactly what the invocation
\* whose write was applied last wrote: completed with its analysis and its
\* processedAt, or failed with nothing of another invocation beside it.
C2_LastWriterOutcome ==
    \A d \in DOMAIN lastWriter :
        RacedOn(d) =>
            LET w == lastWriter[d]
                last == LastWrite(w)
            IN  /\ store[d].status = last.status
                /\ IF last.status = "completed"
                   THEN /\ "analysis" \in DOMAIN store[d]
                        /\ "processedAt" \in DOMAIN store[d]
                        /\ store[d].analysis = inv[w].analysis[1]
                        /\ store[d].processedAt = last.processedAt
                   ELSE /\ "analysis" \notin DOMAIN store[d]
                        /\ "processedAt" \notin DOMAIN store[d]

Sections ==
    { "keyTerms", "riskAssessment", "clauseAnalysis", "complianceCheck",
      "executiveSummary", "confidenceScore" }

\* C3: a record at 'completed' has an analysis that holds each of keyTerms,
\* riskAssessment, clauseAnalysis, complianceCheck, executiveSummary,
\* confidenceScore and processedAt with a value (not null, not undefined),
\* whatever the model answered.
C3_CompletedHasAnalysis ==
    \A d \in DOMAIN store :
        store[d].status = "completed" =>
            /\ "analysis" \in DOMAIN store[d]
            /\ Sections \cup {"processedAt"} \subseteq DOMAIN store[d].analysis
            /\ \A k \in Sections :
                   store[d].analysis[k].t \notin {"null", "undefined"}
            /\ store[d].analysis.processedAt \in Times

\* C3's case: an answer with a null and two missing sections was completed
C3_Witness ==
    \E d \in DOMAIN store :
        /\ store[d].status = "completed"
        /\ store[d].analysis.keyTerms = KeyTermsIn
        /\ store[d].analysis.riskAssessment = DefaultRiskAssessment
        /\ store[d].analysis.executiveSummary = DefaultExecutiveSummary

KeyTermTypes == {"party", "date", "amount", "payment_term", "obligation", "other"}
RiskLevels == {"low", "medium", "high", "critical"}

\* o.k is a string of the set
EnumIn(o, k, set) == k \in DOMAIN o /\ o[k].t = "str" /\ o[k].s \in set
\* o.k is a number in 0..100
ScoreIn(o, k) == k \in DOMAIN o /\ o[k].t = "num" /\ o[k].n \in 0..100

InDomain(analysis) ==
    /\ analysis.keyTerms.t = "arr"
    /\ \A n \in 1..Len(analysis.keyTerms.a) :
           LET term == analysis.keyTerms.a[n]
           IN  /\ term.t = "obj"
               /\ EnumIn(term.o, "type", KeyTermTypes)
               /\ ScoreIn(term.o, "confidence")
    /\ analysis.riskAssessment.t = "obj"
    /\ EnumIn(analysis.riskAssessment.o, "overallRisk", RiskLevels)
    /\ ScoreIn(analysis.riskAssessment.o, "totalScore")
    /\ "risks" \in DOMAIN analysis.riskAssessment.o
    /\ analysis.riskAssessment.o.risks.t = "arr"
    /\ \A n \in 1..Len(analysis.riskAssessment.o.risks.a) :
           LET risk == analysis.riskAssessment.o.risks.a[n]
           IN  /\ risk.t = "obj"
               /\ EnumIn(risk.o, "severity", RiskLevels)
               /\ ScoreIn(risk.o, "confidence")
    /\ analysis.complianceCheck.t = "obj"
    /\ ScoreIn(analysis.complianceCheck.o, "overallCompliance")
    /\ ScoreIn(analysis, "confidenceScore")

\* C4: the analysis persisted on a completed record has every enumerated
\* field inside its declared domain and every score in 0..100, whatever the
\* model answered.
C4_AnalysisInDomain ==
    \A d \in DOMAIN store :
        (store[d].status = "completed" /\ "analysis" \in DOMAIN store[d])
            => InDomain(store[d].analysis)

\* C5: an invocation whose model call failed sends exactly one UpdateCommand,
\* of status 'failed', never one of status 'completed', and ends in a failure:
\* the 500 answer when that write was applied (the record is then at
\* 'failed' until another write), the error itself when the write was
\* rejected.
C5_ModelFailureFails ==
    \A i \in Invs :
        inv[i].thrownAt = "bedrock" =>
            /\ inv[i].analysis = <<>>
            /\ \A n \in 1..Len(inv[i].writes) : inv[i].writes[n].status = "failed"
            /\ inv[i].pc \in {"catch", "done"}
            /\ Done(i) =>
                   /\ Len(inv[i].writes) = 1
                   /\ inv[i].response.statusCode # 200
                   /\ ~inv[i].response.success
                   /\ IF LastWrite(i).applied THEN GenericFailure(i)
                      ELSE inv[i].outcome = "threw"
                   /\ (LastWrite(i).applied /\ lastWriter[Target(i)] = i)
                          => store[Target(i)].status = "failed"

\* C5's case: the model call failed and the record was written 'failed'
C5_Witness ==
    \E i \in Invs :
        /\ inv[i].thrownAt = "bedrock" /\ Done(i)
        /\ LastWrite(i).applied
        /\ store[Target(i)].status = "failed"

\* C6: an invocation whose text resolution failed (S3 read or Textract)
\* never calls the model, sends exactly one UpdateCommand, of status 'failed',
\* and ends in a failure: the 500 answer when that write was applied, the
\* error itself when the write was rejected.
C6_ExtractionFailureFails ==
    \A i \in Invs :
        inv[i].thrownAt \in {"s3", "textract"} =>
            /\ inv[i].modelCalls = 0
            /\ inv[i].analysis = <<>>
            /\ \A n \in 1..Len(inv[i].writes) : inv[i].writes[n].status = "failed"
            /\ inv[i].pc \in {"catch", "done"}
            /\ Done(i) =>
                   /\ Len(inv[i].writes) = 1
                   /\ ~inv[i].response.success
                   /\ IF LastWrite(i).applied THEN GenericFailure(i)
                      ELSE inv[i].outcome = "threw"
                   /\ (LastWrite(i).applied /\ lastWriter[Target(i)] = i)
                          => store[Target(i)].status = "failed"

\* C6's case: Textract failed and the record was written 'failed'
C6_Witness ==
    \E i \in Invs :
        /\ inv[i].thrownAt = "textract" /\ Done(i)
        /\ inv[i].ocrCalls = 1
        /\ LastWrite(i).applied
        /\ store[Target(i)].status = "failed"

\* C7: an invocation for an id that has no record in the table answers 404
\* 'Document not found' and makes no table write, no S3 read, no Textract
\* call and no model call.
C7_UnknownIdNotFound ==
    \A i \in Invs :
        (Done(i) /\ inv[i].absentAtStart) =>
            /\ inv[i].outcome = "returned"
            /\ inv[i].response = Failure(404, "Document not found")
            /\ inv[i].writes = <<>>
            /\ inv[i].s3Reads = 0 /\ inv[i].ocrCalls = 0 /\ inv[i].modelCalls = 0

\* the write of the result was rejected
CompletedWriteFailed(i) ==
    /\ inv[i].writes # <<>>
    /\ inv[i].writes[1].status = "completed"
    /\ ~inv[i].writes[1].applied

\* C8 as stated: when the write of the result fails, the invocation reports
\* the failure and attempts no further table write.
C8_NoFurtherWrite ==
    \A i \in Invs :
        (Done(i) /\ CompletedWriteFailed(i)) =>
            /\ Len(inv[i].writes) = 1
            /\ ~inv[i].response.success

\* C8 amended: when the write of the result fails, the invocation attempts
\* exactly one further write, SET status = 'failed'; applied, it leaves the
\* record at 'failed' and the caller gets the generic 500 answer; rejected
\* too, no write of this invocation reached the table and the error leaves
\* the handler.
C8_StatusRetroSet ==
    \A i \in Invs :
        CompletedWriteFailed(i) =>
            /\ inv[i].thrownAt = "update"
            /\ inv[i].pc \in {"catch", "done"}
            /\ Done(i) =>
                   /\ Len(inv[i].writes) = 2
                   /\ inv[i].writes[2].status = "failed"
                   /\ IF inv[i].writes[2].applied THEN GenericFailure(i)
                      ELSE inv[i].outcome = "threw"
                   /\ (Target(i) \in DOMAIN lastWriter /\ lastWriter[Target(i)] = i)
                          => /\ inv[i].writes[2].applied
                             /\ store[Target(i)].status = "failed"

\* C8's case: the write of the result was rejected and the record is 'failed'
C8_Witness ==
    \E i \in Invs :
        /\ Done(i) /\ CompletedWriteFailed(i)
        /\ inv[i].writes[2].applied
        /\ lastWriter[Target(i)] = i
        /\ store[Target(i)].status = "failed"

GenericErrors ==
    {"Document ID is required", "Document not found", "Processing failed"}

\* an invocation that did not end in the 200 answer
Failed(i) == Done(i) /\ inv[i].response.statusCode # 200

\* C9: every invocation that fails ends by returning an answer with
\* success = false and one of the fixed error strings; no exception leaves
\* the handler.
C9_FailureIsReturned ==
    \A i \in Invs :
        Failed(i) =>
            /\ inv[i].outcome = "returned"
            /\ ~inv[i].response.success
            /\ inv[i].response.error \in GenericErrors
            /\ inv[i].response.data = <<>>

\* the model client has answered invocation i without a transport error
ModelAnswered(i) ==
    /\ inv[i].modelCalls > 0
    /\ inv[i].pc # "bedrock"
    /\ inv[i].thrownAt # "bedrock"

\* C10: once the model client has answered, nothing in the answer makes the
\* invocation fail: it has an analysis and goes on to write 'completed'; only
\* a rejected table write can still fail it.
C10_AnswerNeverFails ==
    \A i \in Invs :
        ModelAnswered(i) =>
            /\ inv[i].analysis # <<>>
            /\ inv[i].thrownAt \in {"none", "update"}
            /\ inv[i].writes # <<>> => inv[i].writes[1].status = "completed"

(***************************************************************************)
(* The response interpreter (ProbeSpec).                                   *)
(***************************************************************************)
\* the interpreter has been applied to the probed answer
Interpreted == probe.stage = "interpreted"

ProseOnly(s) == \A n \in DOMAIN s : s[n] = Prose

\* the answer is one object with nothing but prose around it
ObjectInProse ==
    /\ Interpreted
    /\ probe.input.shape = "object"
    /\ ProseOnly(probe.input.pre)
    /\ ProseOnly(probe.input.post)

\* the section's key is in the object and its value is not null
Present(v) == v \notin {JUndefined, JNull}

SectionNames == {SectionKeys[n] : n \in DOMAIN SectionKeys}

\* C11: when the answer holds a well-formed object with all six sections
\* present (in-domain values, the extremes 0, 100 and [] included), each
\* section of the result is the object's own value for it.
C11_PresentSectionsKept ==
    (ObjectInProse /\ \A k \in SectionNames : Present(probe.input.sections[k]))
        => \A k \in SectionNames : probe.result[1][k] = probe.input.sections[k]

\* the named default of a section
SectionDefault(k) ==
    CASE k = "keyTerms" -> JArr(<<>>)
      [] k = "clauseAnalysis" -> JArr(<<>>)
      [] k = "riskAssessment" -> DefaultRiskAssessment
      [] k = "complianceCheck" -> DefaultComplianceCheck
      [] k = "executiveSummary" -> DefaultExecutiveSummary
      [] k = "confidenceScore" -> DefaultConfidenceScore

\* C12: for a parsed object, exactly the sections whose key is absent or
\* null have their named default in the result; every other section has the
\* object's value.
C12_DefaultsPerSection ==
    ObjectInProse
        => \A k \in SectionNames :
               probe.result[1][k] =
                   IF Present(probe.input.sections[k])
                   THEN probe.input.sections[k]
                   ELSE SectionDefault(k)

\* the text holds a "{" with a "}" somewhere after it
BracePair(text) ==
    \E i, j \in DOMAIN text : i < j /\ text[i] = LB /\ text[j] = RB

\* C13: when the answer holds no "{"..."}" substring, or the substring taken
\* from it does not parse, the result is exactly the fixed fallback analysis:
\* one key term of type other with confidence 50, one medium risk with
\* totalScore 50, one standard clause, overallCompliance 50, confidenceScore
\* 50.
C13_FallbackExact ==
    Interpreted =>
        LET text == AnswerText(probe.input)
            r == probe.result[1]
        IN  (~BracePair(text) \/ ~JsonParses(JsonMatch(text))) =>
                /\ r = FallbackAnalysis(now)
                /\ Len(r.keyTerms.a) = 1
                /\ r.keyTerms.a[1].o.type = JStr("other")
                /\ r.keyTerms.a[1].o.confidence = JNum(50)
                /\ Len(r.riskAssessment.o.risks.a) = 1
                /\ r.riskAssessment.o.risks.a[1].o.severity = JStr("medium")
                /\ r.riskAssessment.o.totalScore = JNum(50)
                /\ Len(r.clauseAnalysis.a) = 1
                /\ r.clauseAnalysis.a[1].o.isStandard = JBool(TRUE)
                /\ r.complianceCheck.o.overallCompliance = JNum(50)
                /\ r.confidenceScore = JNum(50)

\* braces that match nothing, and braces around text that is no JSON, have
\* been answered with the fallback
C13_Witness ==
    /\ Interpreted
    /\ AnswerText(probe.input) \in {<<RB, LB>>, <<LB, Prose, RB>>}
    /\ probe.result[1].confidenceScore = JNum(50)

\* the closing brace that brings the depth back to 0, scanning from n at the
\* given depth; 0 when there is none
RECURSIVE MatchingBrace(_, _, _)
MatchingBrace(text, n, depth) ==
    IF n > Len(text) THEN 0
    ELSE IF text[n] = LB THEN MatchingBrace(text, n + 1, depth + 1)
    ELSE IF text[n] = RB
         THEN IF depth = 1 THEN n ELSE MatchingBrace(text, n + 1, depth - 1)
    ELSE MatchingBrace(text, n + 1, depth)

\* from the first "{" to its matching "}"; <<>> when there is none
FirstObject(text) ==
    LET opens == {i \in DOMAIN text : text[i] = LB}
    IN  IF opens = {} THEN <<>>
        ELSE LET first == CHOOSE i \in opens : \A j \in opens : i <= j
                 close == MatchingBrace(text, first + 1, 1)
             IN  IF close = 0 THEN <<>> ELSE SubSeq(text, first, close)

\* C14: the substring parsed runs from the first "{" to its matching "}";
\* whatever follows the matching brace, the result is mapped from that
\* object whenever it parses.
C14_FirstObjectParsed ==
    Interpreted =>
        LET first == FirstObject(AnswerText(probe.input))
        IN  JsonParses(first) =>
                probe.result[1] = MappedAnalysis(JsonParse(first), now)

(***************************************************************************)
(* Text resolution and the handler's calls and writes (Spec).              *)
(***************************************************************************)
\* invocation i has loaded a record: it is, or was, past the GetCommand with
\* an item in hand
Loaded(i) ==
    \/ inv[i].pc \in {"s3", "textract", "bedrock", "update"}
    \/ inv[i].thrownAt \in {"s3", "textract", "bedrock", "decode", "update"}
    \/ inv[i].response.statusCode = 200

\* the record of that id says it is plain text
PlainText(id) ==
    /\ "contentType" \in DOMAIN store[id]
    /\ store[id].contentType = "text/plain"

Ascii(bytes) == \A n \in DOMAIN bytes : bytes[n] < 128

\* C15: an invocation that has loaded a record has used exactly one text
\* source, chosen by the record's contentType alone: for text/plain the
\* object was read (one GetObject, no Textract call) and its content is the
\* text as it stands ("Hello" gives "Hello"); for any other contentType
\* Textract was called once and the object was never read.
C15_OneSourceByType ==
    \A i \in Invs :
        Loaded(i) =>
            /\ Target(i) \in DOMAIN store
            /\ IF PlainText(Target(i))
               THEN /\ inv[i].s3Reads = 1
                    /\ inv[i].ocrCalls = 0
                    /\ inv[i].pc = "bedrock" =>
                           /\ inv[i].resolved[1].from = "s3"
                           /\ Ascii(inv[i].resolved[1].bytes) =>
                                  inv[i].extractedText = inv[i].resolved[1].bytes
               ELSE /\ inv[i].ocrCalls = 1
                    /\ inv[i].s3Reads = 0
                    /\ inv[i].pc = "bedrock" =>
                           inv[i].resolved[1].from = "textract"

\* a plain-text object holding "Hello" has been read, and the text handed to
\* the model is "Hello"
C15_Witness ==
    \E i \in Invs :
        /\ inv[i].pc = "bedrock"
        /\ PlainText(Target(i))
        /\ inv[i].resolved = <<[from |-> "s3", bytes |-> Hello]>>
        /\ inv[i].extractedText = Hello
        /\ inv[i].ocrCalls = 0

(***************************************************************************)
(* The text of a Textract result (ProbeSpec).                              *)
(***************************************************************************)
Joined == probe.stage = "joined"

\* the segments of a text between its newlines
RECURSIVE Pieces(_)
Pieces(text) ==
    LET breaks == {n \in DOMAIN text : text[n] = NewLine}
    IN  IF breaks = {} THEN <<text>>
        ELSE LET n == CHOOSE b \in breaks : \A c \in breaks : b <= c
             IN  <<SubSeq(text, 1, n - 1)>>
                     \o Pieces(SubSeq(text, n + 1, Len(text)))

\* C16: the text taken from a Textract result is the texts of its LINE
\* blocks, in the order the service gave them, joined by single newlines;
\* blocks of other types contribute nothing, and a result with no LINE block
\* gives the empty text.
C16_LinesJoinedInOrder ==
    Joined =>
        LET blocks == IF probe.input.Blocks = <<>> THEN <<>>
                      ELSE probe.input.Blocks[1]
            lines == {n \in DOMAIN blocks : blocks[n].BlockType = "LINE"}
            \* the k-th LINE block of the result
            nth(k) == CHOOSE n \in lines :
                          Cardinality({m \in lines : m <= n}) = k
            textOf(b) == IF b.Text = <<>> THEN <<>> ELSE b.Text[1]
        IN  IF lines = {} THEN probe.result[1] = <<>>
            ELSE Pieces(probe.result[1]) =
                     [k \in 1..Cardinality(lines) |-> textOf(blocks[nth(k)])]

\* two LINE blocks with a WORD block between them have been joined
C16_Witness ==
    /\ Joined
    /\ probe.input.Blocks =
           << << Block("LINE", <<79>>), Block("WORD", <<72, 105>>),
                 Block("LINE", <<72, 105>>) >> >>
    /\ probe.result[1] = <<79, NewLine, 72, 105>>

(***************************************************************************)
(* The handler's writes (Spec).                                            *)
(***************************************************************************)
\* what the upload wrote about the document
UploadFields ==
    {"id", "fileName", "fileSize", "contentType", "s3Key", "uploadedAt"}

\* the attributes of record d that a step adds, removes or changes
Changed(d) ==
    {a \in DOMAIN store[d] \cup DOMAIN store'[d] :
        \/ a \notin DOMAIN store[d]
        \/ a \notin DOMAIN store'[d]
        \/ store[d][a] # store'[d][a]}

\* the step sends a status='failed' write
FailedWriteStep ==
    \E i \in Invs :
        /\ Len(inv'[i].writes) = Len(inv[i].writes) + 1
        /\ inv'[i].writes[Len(inv'[i].writes)].status = "failed"

\* C17: no step changes the id, fileName, fileSize, contentType, s3Key or
\* uploadedAt of a record: a write touches status, analysis and processedAt
\* only, and the failure write touches status only.
C17_UploadFieldsKept ==
    [][\A d \in DOMAIN store :
           /\ d \in DOMAIN store'
           /\ Changed(d) \cap UploadFields = {}
           /\ Changed(d) \subseteq {"status", "analysis", "processedAt"}
           /\ FailedWriteStep => Changed(d) \subseteq {"status"}]_vars

\* an uploaded record has been through a success write, another through a
\* failure write, and both still hold what the upload wrote
C17_Witness ==
    \E d \in DOMAIN store :
        /\ UploadFields \subseteq DOMAIN store[d]
        /\ store[d].status = "completed"
        /\ \E i, j \in Invs :
               /\ i # j
               /\ HasTarget(i) /\ Target(i) = d
               /\ HasTarget(j) /\ Target(j) = d
               /\ inv[i].writes = <<[status |-> "failed", applied |-> TRUE]>>
               /\ lastWriter[d] = j

\* the status writes of invocation i that the store applied
AppliedWrites(i) == {n \in DOMAIN inv[i].writes : inv[i].writes[n].applied}

\* C18 (as stated): an invocation that loaded a record has, when it ends,
\* written the record's status exactly once, never zero times and never
\* twice.
C18_ExactlyOneStatusWrite ==
    \A i \in Invs :
        (Done(i) /\ Loaded(i)) => Cardinality(AppliedWrites(i)) = 1

\* C18 (amended): an invocation that loaded a record and returns a response
\* has had exactly one status write applied, 'completed' with the 200 and
\* 'failed' with the 500; it sent one write, or two when the store rejected
\* the 'completed' one. An invocation whose last write the store rejects
\* has had none applied, and the error leaves the handler.
C18_OneWriteWhenReturned ==
    \A i \in Invs :
        (Done(i) /\ Loaded(i)) =>
            /\ Len(inv[i].writes) \in {1, 2}
            /\ Len(inv[i].writes) = 2 =>
                   /\ inv[i].writes[1].status = "completed"
                   /\ ~inv[i].writes[1].applied
                   /\ inv[i].writes[2].status = "failed"
            /\ inv[i].outcome = "returned" =>
                   /\ AppliedWrites(i) = {Len(inv[i].writes)}
                   /\ LastWrite(i).status =
                          IF inv[i].response.statusCode = 200
                          THEN "completed" ELSE "failed"
            /\ inv[i].outcome = "threw" =>
                   /\ AppliedWrites(i) = {}
                   /\ LastWrite(i).status = "failed"

\* an attempt on an uploaded record has ended with both of its writes
\* rejected, and the record is still at 'processing'
C18_Witness ==
    \E i \in Invs :
        /\ Done(i)
        /\ Loaded(i)
        /\ inv[i].outcome = "threw"
        /\ Len(inv[i].writes) = 2
        /\ store[Target(i)].status = "processing"

\* C19: no step of an invocation waits for, or looks at, the record's status
\* or another invocation: whatever the status and whoever else is in flight,
\* a request for any id can start, a loaded record goes on to text
\* resolution, and the 'completed' and the 'failed' write can be applied.
C19_NoStatusGate ==
    \A i \in Invs :
        /\ (inv[i].pc = "idle" /\ \A j \in Invs : j < i => inv[j].pc # "idle") =>
               \A d \in DocIds :
                   ENABLED (/\ HandlerStart(i, JsonEvent(JObj([documentId |-> JStr(d)])))
                            /\ inv'[i].pc = "get")
        /\ (inv[i].pc = "get" /\ ValidKey(inv[i].documentId)
                /\ Target(i) \in DOMAIN store) =>
               ENABLED (GetAnswers(i) /\ inv'[i].pc \in {"s3", "textract"})
        /\ inv[i].pc = "update" =>
               ENABLED (/\ UpdateCompletedApplied(i, now)
                        /\ store'[Target(i)].status = "completed"
                        /\ lastWriter'[Target(i)] = i)
        /\ (inv[i].pc = "catch" /\ ValidKey(inv[i].documentId)) =>
               ENABLED (/\ UpdateFailedApplied(i)
                        /\ store'[Target(i)].status = "failed")

\* a second invocation for an id started while the first was in flight, the
\* first has set the record to 'completed', and the second has gone through
\* text resolution, model call and interpretation and is at its own write
C19_Witness ==
    \E i, j \in Invs :
        /\ i # j
        /\ i \in inv[j].concurrentWith
        /\ HasTarget(i) /\ HasTarget(j) /\ Target(i) = Target(j)
        /\ Done(i)
        /\ Target(i) \in DOMAIN store
        /\ store[Target(i)].status = "completed"
        /\ lastWriter[Target(i)] = i
        /\ inv[j].pc = "update"
        /\ inv[j].modelCalls = 1

\* C20: within one invocation the object read or Textract is called at most
\* once and the model at most once; an invocation whose external call failed
\* makes no further external call and does not answer 200.
C20_NoRetry ==
    \A i \in Invs :
        /\ inv[i].s3Reads + inv[i].ocrCalls <= 1
        /\ inv[i].modelCalls <= 1
        /\ inv[i].thrownAt \in {"s3", "textract"} =>
               /\ inv[i].pc \in {"catch", "done"}
               /\ inv[i].s3Reads + inv[i].ocrCalls = 1
               /\ inv[i].modelCalls = 0
        /\ inv[i].thrownAt \in {"bedrock", "decode"} =>
               /\ inv[i].pc \in {"catch", "done"}
               /\ inv[i].modelCalls = 1
        /\ (Done(i) /\ inv[i].thrownAt \in {"s3", "textract", "bedrock", "decode"})
               => Failed(i)

\* the model call of an invocation was rejected, and the invocation answered
\* the failure after that one call
C20_Witness ==
    \E i \in Invs :
        /\ Done(i)
        /\ inv[i].thrownAt = "bedrock"
        /\ inv[i].modelCalls = 1
        /\ inv[i].s3Reads + inv[i].ocrCalls = 1
        /\ GenericFailure(i)

(***************************************************************************)
(* The deployed system: page, handlers and the Lambda timeout (SystemSpec).*)
(***************************************************************************)
\* the Lambda service ended invocation i while it waited for the object, for
\* Textract or for the model
CutShort(i) ==
    /\ Done(i)
    /\ inv[i].outcome = "killed"
    /\ inv[i].thrownAt = "none"
    /\ inv[i].s3Reads + inv[i].ocrCalls = 1
    /\ inv[i].analysis = <<>>

\* C21: when the timeout ends an invocation that waits for text extraction
\* or for the model, the record has been driven to status 'failed', as after
\* an extraction or model error; it is not left at 'processing'.
C21_TimeoutDrivesFailed ==
    \A i \in Invs :
        CutShort(i) => store[Target(i)].status = "failed"

(***************************************************************************)
(* The records of the table (Spec).                                        *)
(***************************************************************************)
\* C22: every record the upload handler has created has a content type among
\* pdf, docx and plain text and a declared file size of at most 10 MB; a
\* request failing either test has written no record.
C22_UploadValidated ==
    \A d \in Uploaded :
        /\ store[d].contentType \in allowedTypes
        /\ store[d].fileSize <= maxSize

\* the step has taken invocation i to the model call with the empty text,
\* with no error caught and no write sent
ModelCalledOnEmpty(i) ==
    /\ inv'[i].pc = "bedrock"
    /\ inv'[i].extractedText = <<>>
    /\ inv'[i].modelCalls = inv[i].modelCalls + 1
    /\ inv'[i].thrownAt = "none"
    /\ inv'[i].writes = <<>>

\* C23: text resolution that succeeds with the empty text (an object of no
\* bytes, a Textract result without blocks or without LINE blocks) is a
\* success: the invocation goes on to call the model with the empty text,
\* catches no error and sends no status='failed' on that account.
C23_EmptyTextGoesOn ==
    \A i \in Invs :
        /\ inv[i].pc = "s3" =>
               ENABLED (S3Answers(i, <<>>) /\ ModelCalledOnEmpty(i))
        /\ (inv[i].pc = "textract" /\ "s3Key" \in DOMAIN inv[i].document[1]) =>
               /\ ENABLED (/\ TextractAnswers(i, [Blocks |-> <<>>])
                           /\ ModelCalledOnEmpty(i))
               /\ ENABLED (/\ TextractAnswers(i,
                                  [Blocks |-> << <<Block("PAGE", <<>>)>> >>])
                           /\ ModelCalledOnEmpty(i))
        /\ (inv[i].pc = "bedrock" /\ inv[i].extractedText = <<>>) =>
               /\ inv[i].thrownAt = "none"
               /\ inv[i].writes = <<>>
               /\ inv[i].modelCalls = 1

\* an object of no bytes has been read and the model has been called on the
\* empty text
C23_Witness ==
    \E i \in Invs :
        /\ inv[i].pc = "bedrock"
        /\ inv[i].resolved = <<[from |-> "s3", bytes |-> <<>>]>>
        /\ inv[i].extractedText = <<>>
        /\ inv[i].modelCalls = 1
        /\ inv[i].writes = <<>>

\* C24: the analysis on a record, and the analysis a 200 answer returns,
\* carry the id of the document processed in their documentId field.
C24_AnalysisNamesDocument ==
    /\ \A d \in DOMAIN store :
           "analysis" \in DOMAIN store[d] => store[d].analysis.documentId = d
    /\ \A i \in Invs :
           inv[i].response.statusCode = 200 =>
               inv[i].response.data[1].documentId = Target(i)

\* the step sends the status='completed' write of invocation i
CompletedWriteStep(i) ==
    /\ Len(inv'[i].writes) = Len(inv[i].writes) + 1
    /\ inv'[i].writes[Len(inv'[i].writes)].status = "completed"

\* the order of the handler's steps: where it may stand after each
StepOrder ==
    { <<"idle", "get">>, <<"idle", "catch">>, <<"idle", "done">>,
      <<"get", "s3">>, <<"get", "textract">>, <<"get", "catch">>,
      <<"get", "done">>,
      <<"s3", "bedrock">>, <<"s3", "catch">>, <<"s3", "done">>,
      <<"textract", "bedrock">>, <<"textract", "catch">>,
      <<"textract", "done">>,
      <<"bedrock", "update">>, <<"bedrock", "catch">>, <<"bedrock", "done">>,
      <<"update", "catch">>, <<"update", "done">>, <<"catch", "done">> }

\* C25: an invocation takes its steps in the order load, resolve text, call
\* the model, interpret, persist; it sends the 'completed' write only after
\* one GetCommand, one text source call and one model call, with the
\* interpreted analysis in hand; a 200 is answered only in the step that
\* applies this write, and the analysis it returns is the value written.
C25_StepsInOrder ==
    [][\A i \in Invs :
           /\ inv'[i].pc # inv[i].pc => <<inv[i].pc, inv'[i].pc>> \in StepOrder
           /\ CompletedWriteStep(i) =>
                  /\ inv[i].pc = "update"
                  /\ inv[i].gets = 1
                  /\ inv[i].s3Reads + inv[i].ocrCalls = 1
                  /\ inv[i].modelCalls = 1
                  /\ inv[i].analysis # <<>>
                  /\ inv[i].thrownAt = "none"
           /\ (inv'[i].response.statusCode = 200
                   /\ inv[i].response.statusCode # 200) =>
                  /\ CompletedWriteStep(i)
                  /\ inv'[i].writes[Len(inv'[i].writes)].applied
                  /\ store'[Target(i)].status = "completed"
                  /\ store'[Target(i)].analysis = inv[i].analysis[1]
                  /\ inv'[i].response.data = <<store'[Target(i)].analysis>>]_vars

\* an invocation has answered 200 with the analysis that is on the record
C25_Witness ==
    \E i \in Invs :
        /\ Done(i)
        /\ inv[i].response.statusCode = 200
        /\ lastWriter[Target(i)] = i
        /\ inv[i].response.data = <<store[Target(i)].analysis>>
        /\ inv[i].gets = 1
        /\ inv[i].modelCalls = 1

\* C26: a record whose status has left 'processing' never returns to it:
\* every step that changes the status of an existing record sets it to
\* 'completed' or 'failed', whatever the invocations and their interleaving.
C26_NeverBackToProcessing ==
    [][\A d \in DOMAIN store :
           /\ d \in DOMAIN store'
           /\ store[d].status # "processing" => store'[d].status # "processing"
           /\ store'[d].status # store[d].status =>
                  store'[d].status \in {"completed", "failed"}]_vars

\* a record has gone from 'processing' to 'completed' and on to 'failed' by
\* a later invocation
C26_Witness ==
    \E i, j \in Invs :
        /\ i # j
        /\ HasTarget(i) /\ HasTarget(j) /\ Target(i) = Target(j)
        /\ Target(i) \in Uploaded
        /\ Done(i) /\ Done(j)
        /\ i \notin inv[j].concurrentWith
        /\ inv[i].writes = <<[status |-> "completed", applied |-> TRUE,
                              processedAt |-> 0]>>
        /\ lastWriter[Target(i)] = j
        /\ store[Target(i)].status = "failed"

\* the record has the attribute
Has(d, a) == a \in DOMAIN store[d]

\* C27: in every state a record has an analysis exactly when it has a
\* processedAt, and a record at 'processing' has neither; every step that
\* puts or changes either of the two on a record is one applied 'completed'
\* write of one invocation, which sets both.
C27_AnalysisWithProcessedAt ==
    /\ [](\A d \in DOMAIN store :
              /\ Has(d, "analysis") <=> Has(d, "processedAt")
              /\ store[d].status = "processing" => ~Has(d, "analysis"))
    /\ [][\A d \in DOMAIN store' :
              (\/ d \notin DOMAIN store
               \/ Changed(d) \cap {"analysis", "processedAt"} # {}) =>
                  \/ /\ d \notin DOMAIN store
                     /\ DOMAIN store'[d] \cap {"analysis", "processedAt"} = {}
                  \/ \E i \in Invs :
                         /\ CompletedWriteStep(i)
                         /\ Target(i) = d
                         /\ inv'[i].writes[Len(inv'[i].writes)].applied
                         /\ store'[d].analysis = inv[i].analysis[1]
                         /\ store'[d].processedAt =
                                inv'[i].writes[Len(inv'[i].writes)].processedAt]_vars

\* a record completed after the clock has advanced holds both, and a later
\* failure write has left both in place
C27_Witness ==
    \E d \in DOMAIN store :
        /\ store[d].status = "failed"
        /\ Has(d, "analysis")
        /\ Has(d, "processedAt")
        /\ store[d].processedAt = 1

\* C28: only the upload handler adds an id to the table: every record in it
\* is one the upload handler created, whatever path the processing
\* invocations have taken.
C28_OnlyUploadCreates ==
    \A d \in DOMAIN store : d \in Uploaded

(***************************************************************************)
(* The upload page (SystemSpec).                                           *)
(***************************************************************************)
\* the three steps of handleUpload, in order
PageSteps == <<"initiate", "s3put", "process">>

\* C29: the page takes its steps in the order initiate upload, put the
\* file, request processing, each after the one before has succeeded; its
\* status is uploading during the first two, processing during the third
\* and completed after it; a failed step leaves status 'error' with
\* progress 0 and no later step started; and every navigation to the
\* results page is made from status 'completed'.
C29_PageStepsInOrder ==
    /\ page.steps = SubSeq(PageSteps, 1, Len(page.steps))
    /\ page.pc # "none" =>
           /\ page.steps # <<>>
           /\ page.pc = page.steps[Len(page.steps)]
           /\ page.uploadStatus =
                  IF page.pc = "process" THEN "processing" ELSE "uploading"
    /\ page.uploadStatus = "completed" =>
           /\ page.pc = "none"
           /\ page.steps = PageSteps
           /\ page.failedAt = "none"
    /\ page.uploadStatus = "error" =>
           /\ page.pc = "none"
           /\ page.progress = 0
           /\ page.failedAt = page.steps[Len(page.steps)]
    /\ \A n \in DOMAIN page.navigated : page.navigated[n].from = "completed"

\* the record of the document the page uploaded
PageRecord == store[page.documentId[1]]

\* invocation i applied a status='completed' write, which carries the
\* analysis
AppliedCompleted(i) ==
    \E w \in DOMAIN inv[i].writes :
        /\ inv[i].writes[w].status = "completed"
        /\ inv[i].writes[w].applied

\* C30: the page is at 'completed' only after the invocation it triggered
\* has applied its status='completed' write with an analysis to the
\* document's record; and when the page is at 'error' after having
\* requested processing, the record is at 'failed'.
C30_PageMatchesRecord ==
    /\ page.uploadStatus = "completed" =>
           /\ page.invocation # 0
           /\ AppliedCompleted(page.invocation)
           /\ page.documentId[1] \in DOMAIN store
           /\ "analysis" \in DOMAIN PageRecord
    /\ page.uploadStatus = "error" /\ page.failedAt = "process" =>
           /\ page.documentId[1] \in DOMAIN store
           /\ PageRecord.status = "failed"

=============================================================================
